---- MODULE Spec2Model ----
\* GRIB edition-1 reader (src/src/lib.rs): the File Walker loops of
\* Grib1Reader::read and Grib1Reader::read_binary, the Message Scanner
\* read_grib, the four section decoders and the primitive decoders, run over
\* byte-exact files.
EXTENDS Integers, Sequences, FiniteSets, TLC

VARIABLES
    file,       \* the bytes of the file behind self.reader
    search,     \* the caller's Vec<SearchParams>
    mode,       \* "read" or "read_binary": which public operation runs
    shapes,     \* how the file was laid out (one shape per message written)
    damage,     \* what was done to the file after it was laid out
    pc,         \* position of the running operation
    pos,        \* the stream position of self.reader
    offset,     \* `offset` of read / read_binary
    length,     \* `length` of read / read_binary (the file's size)
    buffer,     \* the 8-byte header buffer of read_grib
    length_of_grib_section,
    secbuf,     \* the buffer of the section decoder that ran last
    grib,       \* `result` of read_grib (length, pds, gds, bds)
    number_of_lat_values,
    number_of_lon_values,
    result,     \* `result` of read (Vec<Grib>) / read_binary (Vec<u8>)
    ret,        \* what the operation returned
    sections,   \* section decoders called for the message being scanned, in order
    scanned     \* messages read_grib returned a result for: offset, length, key

vars == <<file, search, mode, shapes, damage, pc, pos, offset, length, buffer,
          length_of_grib_section, secbuf, grib, number_of_lat_values, number_of_lon_values, result,
          ret, sections, scanned>>

\* ------------------------------------------------------------------ bounds

\* Messages laid out in one file.
MaxMsgs == 2

\* The walker is followed for at most this many scanned messages (only a
\* scan that does not advance goes on longer than the file has messages).
MaxVisits == MaxMsgs + 1

\* ------------------------------------------------------- Option / Result

None == [some |-> FALSE]
Some(v) == [some |-> TRUE, val |-> v]

Ok(v) == [kind |-> "Ok", value |-> v]
Err(e) == [kind |-> "Err", err |-> e]
NotReturned == [kind |-> "Running"]

IoError == <<"IoError">>
WrongHeader == <<"WrongHeader">>
WrongVersion(v) == <<"WrongVersion", v>>
DataDecodeFailed == <<"DataDecodeFailed">>

\* --------------------------------------------------- primitive decoders

RECURSIVE Pow2(_)
Pow2(n) == IF n = 0 THEN 1 ELSE 2 * Pow2(n - 1)

\* a & b on unsigned integers
RECURSIVE BitAnd(_, _)
BitAnd(a, b) ==
    IF a = 0 \/ b = 0 THEN 0
    ELSE (a % 2) * (b % 2) + 2 * BitAnd(a \div 2, b \div 2)

\* `&buffer[k..]`: the slice from 0-based index k on
SliceFrom(buf, k) == SubSeq(buf, k + 1, Len(buf))

\* `x as u8`, `x as u16`
AsU8(x) == x % 256
AsU16(x) == x % 65536

\* array[0] is array[1] here: sequences are 1-based
read_u16_be(array) == array[2] + array[1] * 256

read_u24_be(array) == array[3] + array[2] * 256 + array[1] * 65536

read_i16_be(array) ==
    LET val == array[2] + BitAnd(array[1], 127) * 256
    IN  IF BitAnd(array[1], 128) > 0 THEN -val ELSE val

read_i24_be(array) ==
    LET val == array[3] + array[2] * 256 + BitAnd(array[1], 127) * 65536
    IN  IF BitAnd(array[1], 128) > 0 THEN -val ELSE val

\* The IBM float is kept as the three integers the code extracts; its value
\* is sign * 2^-24 * b * 16^(a - 64).
read_f32_ibm(data) ==
    [sign |-> IF BitAnd(data[1], 128) > 0 THEN -1 ELSE 1,
     a    |-> BitAnd(data[1], 127),
     b    |-> data[2] * 65536 + data[3] * 256 + data[4]]

\* ------------------------------------------------------------ the stream

\* AsyncReadExt::read into a zeroed buffer of n bytes: as many bytes as the
\* file still has, at most n; the rest of the buffer stays 0.
ReadUpTo(f, p, n) ==
    LET got == IF Len(f) - p < n THEN Len(f) - p ELSE n
    IN  [buf |-> [i \in 1..n |-> IF i <= got THEN f[p + i] ELSE 0],
         pos |-> p + got]

\* read_exact of n bytes fails (UnexpectedEof) when the file has fewer left.
CanReadExact(f, p, n) == p + n <= Len(f)

\* get_length followed by read_exact of the whole section: the section's
\* bytes, or the I/O failure of either read.
ReadSection(f, p) ==
    IF ~CanReadExact(f, p, 3) THEN [st |-> "io"]
    ELSE LET len == read_u24_be(SubSeq(f, p + 1, p + 3))
         IN  IF ~CanReadExact(f, p, len) THEN [st |-> "io"]
             ELSE [st |-> "ok", buf |-> SubSeq(f, p + 1, p + len), pos |-> p + len]

\* ------------------------------------------------------ section decoders

\* has_gds testing the bitmap bit (the masks confused)
has_gds_bitmap_mask(pds) ==
    BitAnd(pds.flag_specifying_the_presence_or_absence_of_a_gds_or_a_bms, 64) > 0

has_gds(pds) == BitAnd(pds.flag_specifying_the_presence_or_absence_of_a_gds_or_a_bms, 128) > 0

has_bmp(pds) == BitAnd(pds.flag_specifying_the_presence_or_absence_of_a_gds_or_a_bms, 64) > 0

\* Indexing past the end of a section buffer panics.
Panicked == [st |-> "panic"]
Decoded(v) == [st |-> "ok", val |-> v]

\* b[i] with the source's 0-based index
At(b, i) == b[i + 1]

read_pds(b) ==
    IF Len(b) < 28 THEN Panicked
    ELSE Decoded(
      [parameter_table_version_number |-> At(b, 3),
       identification_of_center |-> At(b, 4),
       generating_process_id_number |-> At(b, 5),
       grid_identification |-> At(b, 6),
       flag_specifying_the_presence_or_absence_of_a_gds_or_a_bms |-> At(b, 7),
       indicator_of_parameter_and_units |-> At(b, 8),
       indicator_of_type_of_level_or_layer |-> At(b, 9),
       level_or_layer_value |-> read_u16_be(SliceFrom(b, 10)),
       year |-> At(b, 12),
       month |-> At(b, 13),
       day |-> At(b, 14),
       hour |-> At(b, 15),
       minute |-> At(b, 16),
       forecast_time_unit |-> At(b, 17),
       p1_period_of_time |-> At(b, 18),
       p2_period_of_time |-> At(b, 19),
       time_range_indicator |-> At(b, 20),
       number_missing_from_averages_or_accumulations |-> At(b, 23),
       century_of_initial_reference_time |-> At(b, 24),
       identification_of_sub_center |-> At(b, 25),
       decimal_scale_factor |-> read_i16_be(SliceFrom(b, 26))])

Unhandled == [kind |-> "Unhandled"]

\* The coordinates stay the signed 24-bit integers (thousandths of a degree)
\* that the code multiplies by 0.001.
RotatedLatLon(b) ==
    [kind |-> "RotatedLatLon",
     number_of_lat_values |-> read_u16_be(SliceFrom(b, 6)),
     number_of_lon_values |-> read_u16_be(SliceFrom(b, 8)),
     latitude_of_first_grid_point |-> read_i24_be(SliceFrom(b, 10)),
     longitude_of_first_grid_point |-> read_i24_be(SliceFrom(b, 13)),
     latitude_of_last_grid_point |-> read_i24_be(SliceFrom(b, 17)),
     longitude_of_last_grid_point |-> read_i24_be(SliceFrom(b, 20)),
     latitude_of_southern_pole |-> read_i24_be(SliceFrom(b, 32)),
     longitude_of_southern_pole |-> read_i24_be(SliceFrom(b, 35))]

read_gds(b) ==
    IF Len(b) < 6 THEN Panicked
    ELSE IF At(b, 5) = 10 /\ Len(b) < 38 THEN Panicked
    ELSE Decoded(
      [number_of_vertical_coordinate_values |-> At(b, 3),
       pvl_location |-> At(b, 4),
       data_representation_type |-> At(b, 5),
       data |-> IF At(b, 5) = 10 THEN RotatedLatLon(b) ELSE Unhandled])

read_bitmap(b) ==
    IF Len(b) < 6 THEN Panicked
    ELSE Decoded(
      [number_of_unused_bits_at_end_of_section3 |-> At(b, 3),
       table_reference |-> read_u16_be(SliceFrom(b, 4))])

\* ---- the bit reader over &buffer[11..]

\* bit k (0-based, most significant first) of a byte string
BitOf(bytes, k) == (bytes[(k \div 8) + 1] \div Pow2(7 - (k % 8))) % 2

\* the next w bits from cursor p, accumulated most significant first
RECURSIVE TakeBits(_, _, _)
TakeBits(bytes, p, w) ==
    IF w = 0 THEN 0
    ELSE 2 * TakeBits(bytes, p, w - 1) + BitOf(bytes, p + w - 1)

\* BitReader::read::<u32>(w) at cursor p: an error when u32 cannot hold w
\* bits or when the stream ends first; else the value, cursor moved by w.
BitReaderRead(bytes, p, w) ==
    IF w > 32 THEN [ok |-> FALSE]
    ELSE IF p + w > 8 * Len(bytes) THEN [ok |-> FALSE]
    ELSE [ok |-> TRUE, x |-> TakeBits(bytes, p, w), p |-> p + w]

\* The unpacking loop of read_bds: one read per data point, the first failed
\* read ends it. Samples are kept as the unpacked x; the stored f32 is
\* reference_value + x * 2^binary_scale_factor.
RECURSIVE UnpackLoop(_, _, _, _, _)
UnpackLoop(bytes, w, number_of_data_points, p, acc) ==
    IF ~(Len(acc) < number_of_data_points) THEN [ok |-> TRUE, data |-> acc]
    ELSE LET r == BitReaderRead(bytes, p, w)
         IN  IF ~r.ok THEN [ok |-> FALSE]
             ELSE UnpackLoop(bytes, w, number_of_data_points, r.p, Append(acc, r.x))

read_bds(b, number_of_data_points) ==
    IF Len(b) < 11 THEN Panicked
    ELSE LET u == UnpackLoop(SliceFrom(b, 11), At(b, 10), number_of_data_points, 0, <<>>)
         IN  IF ~u.ok THEN [st |-> "decode"]
             ELSE Decoded(
               [data_flag |-> At(b, 3),
                binary_scale_factor |-> read_i16_be(SliceFrom(b, 4)),
                reference_value |-> read_f32_ibm(SliceFrom(b, 6)),
                bits_per_value |-> At(b, 10),
                data |-> u.data])

\* the point count as a sum instead of a product
NumberOfDataPoints_sum(lat, lon) == lat + lon

\* number_of_lat_values as usize * number_of_lon_values as usize
NumberOfDataPoints(lat, lon) == lat * lon

\* ------------------------------------------------------ message scanner

Magic == <<71, 82, 73, 66>>

\* the header checks with the version tested before the magic
HeaderCheck_version_first(buf) ==
    IF buf[8] # 1 THEN WrongVersion(buf[8])
    ELSE IF Magic # SubSeq(buf, 1, 4) THEN WrongHeader
    ELSE <<"ok">>

\* The two checks of the 8-byte header, in the code's order.
HeaderCheck(buf) ==
    IF Magic # SubSeq(buf, 1, 4) THEN WrongHeader
    ELSE IF buf[8] # 1 THEN WrongVersion(buf[8])
    ELSE <<"ok">>

\* One search item against the Product Definition (the `if` of the loop).
Matches(pds, item) ==
    /\ pds.indicator_of_parameter_and_units = AsU8(item.param)
    /\ pds.level_or_layer_value = AsU16(item.level)

\* The search loop returns at the first item that matches.
AnyMatch(pds, list) == \E i \in 1..Len(list) : Matches(pds, list[i])

\* read passes read_bds = true, read_binary passes false.
ReadBdsFlag(m) == m = "read"

\* ------------------------------------------------- the files scanned

U16(n) == <<n \div 256, n % 256>>
U24(n) == <<n \div 65536, (n \div 256) % 256, n % 256>>

\* A message as a GRIB1 writer lays it out: parameter and level, the flag
\* byte, the grid's representation type and point counts, the packing width
\* and the number of payload bytes.
Shape(param, level, flag, rep, lat, lon, bits, nbytes) ==
    [param |-> param, level |-> level, flag |-> flag, rep |-> rep,
     lat |-> lat, lon |-> lon, bits |-> bits, nbytes |-> nbytes]

Shapes ==
    { Shape(33, 700, 128, 10, 2, 2,  8, 4),   \* grid 2x2, 8 bits: exact fit
      Shape(34, 700,   0,  0, 0, 0,  8, 2),   \* neither GDS nor bitmap
      Shape(33, 700, 192, 10, 1, 3,  3, 1),   \* 9 bits wanted, 8 stored
      Shape(34, 700, 192,  0, 2, 2, 12, 3),   \* GDS of another representation
      Shape(34, 500, 128, 10, 1, 2, 12, 3),   \* 12 bits: fields cross bytes
      Shape(33, 700, 128, 10, 1, 1, 33, 5),   \* a width u32 cannot hold
      Shape(33, 500,  64,  0, 0, 0,  8, 1) }  \* bitmap without GDS

PayloadBytes == <<171, 205, 239, 18, 52>>

PdsBytes(s) ==
    U24(28) \o <<2, 94, 1, 255, s.flag, s.param, 100>> \o U16(s.level)
    \o <<22, 11, 3, 12, 0, 1, 6, 0, 0, 0, 0, 0, 21, 0>> \o <<128, 1>>

GdsBytes(s) ==
    U24(42) \o <<0, 255, s.rep>> \o U16(s.lat) \o U16(s.lon)
    \o <<128, 39, 16>> \o <<0, 19, 136>> \o <<128>>
    \o <<0, 39, 16>> \o <<0, 78, 32>> \o <<0, 100, 0, 100, 64, 0, 0, 0, 0>>
    \o <<129, 95, 144>> \o <<0, 39, 16>> \o <<0, 0, 0, 0>>

BmpBytes == U24(6) \o <<0, 0, 5>>

BdsBytes(s) ==
    U24(11 + s.nbytes) \o <<0>> \o <<128, 2>> \o <<66, 16, 0, 0>> \o <<s.bits>>
    \o SubSeq(PayloadBytes, 1, s.nbytes)

Trailer == <<55, 55, 55, 55>>

Body(s) ==
    PdsBytes(s)
    \o (IF s.flag \div 128 = 1 THEN GdsBytes(s) ELSE <<>>)
    \o (IF (s.flag \div 64) % 2 = 1 THEN BmpBytes ELSE <<>>)
    \o BdsBytes(s) \o Trailer

MessageBytes(s) == Magic \o U24(8 + Len(Body(s))) \o <<1>> \o Body(s)

\* What may have happened to one message of a file: the first or the last
\* one for a changed byte, the last one for a cut.
NoDamage == [kind |-> "none", k |-> 0, n |-> 0]
DamageKinds == {"magic", "version", "len0", "lenBig", "pdsShort"}
CutPoints == {2, 6, 20}
Damages(n) ==
    IF n = 0 THEN {}
    ELSE [kind : DamageKinds, k : {1, n}, n : {0}]
         \cup [kind : {"cut"}, k : {n}, n : CutPoints]
         \cup [kind : {"dropTail"}, k : {n}, n : {2}]

Patch(m, d) ==
    CASE d.kind = "magic" -> [m EXCEPT ![1] = 0]
      [] d.kind = "version" -> [m EXCEPT ![8] = 2]
      [] d.kind = "len0" -> [m EXCEPT ![5] = 0, ![6] = 0, ![7] = 0]
      [] d.kind = "lenBig" -> SubSeq(m, 1, 4) \o U24(Len(m) + 4) \o SubSeq(m, 8, Len(m))
      [] d.kind = "pdsShort" -> [m EXCEPT ![11] = 27]
      [] d.kind = "cut" -> SubSeq(m, 1, d.n)
      [] d.kind = "dropTail" -> SubSeq(m, 1, Len(m) - d.n)
      [] OTHER -> m

RECURSIVE Concat(_)
Concat(ss) == IF ss = <<>> THEN <<>> ELSE Head(ss) \o Concat(Tail(ss))

FileBytes(ss, d) ==
    Concat([i \in 1..Len(ss) |->
              IF i = d.k THEN Patch(MessageBytes(ss[i]), d) ELSE MessageBytes(ss[i])])

ShapeLists == UNION {[1..n -> Shapes] : n \in 0..MaxMsgs}

Item(param, level) == [param |-> param, level |-> level]

\* Search lists a caller may pass: none, one, two in both orders, a repeat,
\* values wider than the fields they are compared with, and a miss.
SearchLists ==
    { <<>>,
      <<Item(33, 700)>>,
      <<Item(33, 700), Item(34, 700)>>,
      <<Item(34, 700), Item(33, 700)>>,
      <<Item(34, 700), Item(34, 700)>>,
      <<Item(289, 700)>>,
      <<Item(34, 66036)>>,
      <<Item(35, 700)>> }

\* Damaged files are scanned for one list that finds messages and one that
\* finds none.
DamagedSearchLists == { <<Item(33, 700), Item(34, 700)>>, <<Item(35, 700)>> }

\* The runs: every intact file with every search list, every damaged file
\* with the two lists above.
Runs ==
    [shapes : ShapeLists, damage : {NoDamage}, search : SearchLists]
    \cup UNION { [shapes : {ss}, damage : Damages(Len(ss)), search : DamagedSearchLists]
                 : ss \in ShapeLists }

\* ------------------------------------------------------------------ Init

Init ==
    /\ \E run \in Runs :
         /\ shapes = run.shapes
         /\ damage = run.damage
         /\ search = run.search
    /\ file = FileBytes(shapes, damage)
    /\ mode \in {"read", "read_binary"}
    /\ pc = "start"
    /\ pos = 0
    /\ offset = 0
    /\ length = 0
    /\ buffer = [i \in 1..8 |-> 0]
    /\ length_of_grib_section = 0
    /\ secbuf = <<>>
    /\ grib = None
    /\ number_of_lat_values = 0
    /\ number_of_lon_values = 0
    /\ result = <<>>
    /\ ret = NotReturned
    /\ sections = <<>>
    /\ scanned = <<>>

\* --------------------------------------------------------------- actions

inputs == <<file, search, mode, shapes, damage>>
counts == <<number_of_lat_values, number_of_lon_values>>

\* an error that ends the scan with the messages assembled so far
Abort_keep_partial(e) ==
    /\ pc' = "done"
    /\ ret' = Ok(result)

\* `?`: the error leaves the operation as its result.
Abort(e) ==
    /\ pc' = "failed"
    /\ ret' = Err(e)

\* An index past the end of a buffer unwinds the task; nothing is returned.
Panic ==
    /\ pc' = "panicked"
    /\ ret' = [kind |-> "Panic"]

\* self.reader.seek(SeekFrom::End(0)): the file's length.
SeekEnd ==
    /\ pc = "start"
    /\ length' = Len(file)
    /\ pos' = Len(file)
    /\ pc' = "while"
    /\ UNCHANGED <<inputs, offset, buffer, length_of_grib_section, secbuf, grib,
                   counts, result, ret, sections, scanned>>

\* A seek the operating system refuses, at either seek of the walker.
SeekFails ==
    /\ \/ pc = "start"
       \/ pc = "while" /\ offset < length
    /\ Abort(IoError)
    /\ UNCHANGED <<inputs, pos, offset, length, buffer, length_of_grib_section,
                   secbuf, grib, counts, result, sections, scanned>>

\* `while offset < length` entered: seek to the message's start.
WhileEnter ==
    /\ pc = "while"
    /\ offset < length
    /\ Len(scanned) < MaxVisits
    /\ pos' = offset
    /\ sections' = <<>>
    /\ pc' = "header"
    /\ UNCHANGED <<inputs, offset, length, buffer, length_of_grib_section, secbuf,
                   grib, counts, result, ret, scanned>>

\* The loop ends: Ok(result).
Return ==
    /\ pc = "while"
    /\ ~(offset < length)
    /\ ret' = Ok(result)
    /\ pc' = "done"
    /\ UNCHANGED <<inputs, pos, offset, length, buffer, length_of_grib_section,
                   secbuf, grib, counts, result, sections, scanned>>

\* read_grib, the 8-byte header.
ReadHeader ==
    /\ pc = "header"
    /\ LET r == ReadUpTo(file, pos, 8)
           c == HeaderCheck(r.buf)
       IN  /\ buffer' = r.buf
           /\ pos' = r.pos
           /\ IF c = WrongHeader
              THEN Abort(c) /\ UNCHANGED length_of_grib_section
              ELSE /\ length_of_grib_section' = read_u24_be(SliceFrom(r.buf, 4))
                   /\ IF c = <<"ok">>
                      THEN pc' = "pds" /\ UNCHANGED ret
                      ELSE Abort(c)
    /\ UNCHANGED <<inputs, offset, length, secbuf, grib, counts, result,
                   sections, scanned>>

\* read_grib, the Product Definition and the fresh `result` and point counts.
DecodePds ==
    /\ pc = "pds"
    /\ sections' = Append(sections, "PDS")
    /\ LET r == ReadSection(file, pos)
           d == read_pds(r.buf)
       IN  IF r.st = "io"
           THEN Abort(IoError) /\ UNCHANGED <<pos, secbuf, grib, counts>>
           ELSE /\ pos' = r.pos
                /\ secbuf' = r.buf
                /\ IF d.st = "panic"
                   THEN Panic /\ UNCHANGED <<grib, counts>>
                   ELSE /\ grib' = [length |-> length_of_grib_section, pds |-> d.val,
                                    gds |-> None, bds |-> None]
                        /\ number_of_lat_values' = 0
                        /\ number_of_lon_values' = 0
                        /\ pc' = "gds"
                        /\ UNCHANGED ret
    /\ UNCHANGED <<inputs, offset, length, buffer, length_of_grib_section, result,
                   scanned>>

\* read_grib, `if result.pds.has_gds()`.
DecodeGds ==
    /\ pc = "gds"
    /\ IF has_gds(grib.pds)
       THEN /\ sections' = Append(sections, "GDS")
            /\ LET r == ReadSection(file, pos)
                   d == read_gds(r.buf)
               IN  IF r.st = "io"
                   THEN Abort(IoError) /\ UNCHANGED <<pos, secbuf, grib, counts>>
                   ELSE /\ pos' = r.pos
                        /\ secbuf' = r.buf
                        /\ IF d.st = "panic"
                           THEN Panic /\ UNCHANGED <<grib, counts>>
                           ELSE /\ IF d.val.data.kind = "RotatedLatLon"
                                   THEN /\ number_of_lat_values' = d.val.data.number_of_lat_values
                                        /\ number_of_lon_values' = d.val.data.number_of_lon_values
                                   ELSE UNCHANGED counts
                                /\ grib' = [grib EXCEPT !.gds = Some(d.val)]
                                /\ pc' = "bmp"
                                /\ UNCHANGED ret
       ELSE /\ pc' = "bmp"
            /\ UNCHANGED <<pos, secbuf, grib, counts, ret, sections>>
    /\ UNCHANGED <<inputs, offset, length, buffer, length_of_grib_section, result,
                   scanned>>

\* read_grib, `if result.pds.has_bmp()`: decoded and dropped.
DecodeBitmap ==
    /\ pc = "bmp"
    /\ IF has_bmp(grib.pds)
       THEN /\ sections' = Append(sections, "BMP")
            /\ LET r == ReadSection(file, pos)
                   d == read_bitmap(r.buf)
               IN  IF r.st = "io"
                   THEN Abort(IoError) /\ UNCHANGED <<pos, secbuf>>
                   ELSE /\ pos' = r.pos
                        /\ secbuf' = r.buf
                        /\ IF d.st = "panic"
                           THEN Panic
                           ELSE pc' = "match" /\ UNCHANGED ret
       ELSE /\ pc' = "match"
            /\ UNCHANGED <<pos, secbuf, ret, sections>>
    /\ UNCHANGED <<inputs, offset, length, buffer, length_of_grib_section, grib,
                   counts, result, scanned>>

\* read_grib, the search loop up to the decision it takes.
Match ==
    /\ pc = "match"
    /\ pc' = IF AnyMatch(grib.pds, search)
             THEN (IF ReadBdsFlag(mode) THEN "bds" ELSE "found")
             ELSE "skip"
    /\ UNCHANGED <<inputs, pos, offset, length, buffer, length_of_grib_section,
                   secbuf, grib, counts, result, ret, sections, scanned>>

\* read_grib, read_bds for the matching message, then Ok(GribResult::Grib).
DecodeBds ==
    /\ pc = "bds"
    /\ sections' = Append(sections, "BDS")
    /\ LET r == ReadSection(file, pos)
           d == read_bds(r.buf, NumberOfDataPoints(number_of_lat_values,
                                                   number_of_lon_values))
       IN  IF r.st = "io"
           THEN Abort(IoError) /\ UNCHANGED <<pos, secbuf, grib>>
           ELSE /\ pos' = r.pos
                /\ secbuf' = r.buf
                /\ CASE d.st = "panic" -> Panic /\ UNCHANGED grib
                     [] d.st = "decode" -> Abort(DataDecodeFailed) /\ UNCHANGED grib
                     [] OTHER -> /\ grib' = [grib EXCEPT !.bds = Some(d.val)]
                                 /\ pc' = "found"
                                 /\ UNCHANGED ret
    /\ UNCHANGED <<inputs, offset, length, buffer, length_of_grib_section, counts,
                   result, scanned>>

Scanned(g) ==
    [offset |-> offset, length |-> g.length,
     param |-> g.pds.indicator_of_parameter_and_units,
     level |-> g.pds.level_or_layer_value]

\* read, GribResult::Grib: keep the message, advance by its length.
PushGrib ==
    /\ pc = "found"
    /\ mode = "read"
    /\ result' = Append(result, grib)
    /\ offset' = offset + grib.length
    /\ scanned' = Append(scanned, Scanned(grib))
    /\ pc' = "while"
    /\ UNCHANGED <<inputs, pos, length, buffer, length_of_grib_section, secbuf,
                   grib, counts, ret, sections>>

\* read_binary, GribResult::Grib: seek back, read_exact the whole message,
\* append it, advance by its length.
CopyBytes ==
    /\ pc = "found"
    /\ mode = "read_binary"
    /\ IF CanReadExact(file, offset, grib.length)
       THEN /\ result' = result \o SubSeq(file, offset + 1, offset + grib.length)
            /\ pos' = offset + grib.length
            /\ offset' = offset + grib.length
            /\ scanned' = Append(scanned, Scanned(grib))
            /\ pc' = "while"
            /\ UNCHANGED ret
       ELSE /\ Abort(IoError)
            /\ pos' = offset
            /\ UNCHANGED <<result, offset, scanned>>
    /\ UNCHANGED <<inputs, length, buffer, length_of_grib_section, secbuf, grib,
                   counts, sections>>

\* GribResult::Length of a message no search item matched: advance by it.
SkipMessage ==
    /\ pc = "skip"
    /\ offset' = offset + length_of_grib_section
    /\ scanned' = Append(scanned, Scanned(grib))
    /\ pc' = "while"
    /\ UNCHANGED <<inputs, pos, length, buffer, length_of_grib_section, secbuf,
                   grib, counts, result, ret, sections>>

Next ==
    \/ SeekEnd
    \/ SeekFails
    \/ WhileEnter
    \/ Return
    \/ ReadHeader
    \/ DecodePds
    \/ DecodeGds
    \/ DecodeBitmap
    \/ Match
    \/ DecodeBds
    \/ PushGrib
    \/ CopyBytes
    \/ SkipMessage

Spec == Init /\ [][Next]_vars

\* ================================================================ claims

Last(q) == q[Len(q)]

\* States of a message scan that lie past the header checks.
PastHeader == {"pds", "gds", "bmp", "match", "bds", "found", "skip"}

\* Byte i (1..8) of the header at the message start, as the file holds it;
\* 0 where the file has ended.
HeaderByte(i) == IF offset + i <= Len(file) THEN file[offset + i] ELSE 0

MagicInFile == <<HeaderByte(1), HeaderByte(2), HeaderByte(3), HeaderByte(4)>> = <<71, 82, 73, 66>>

\* The scan failed in the header checks (an I/O failure is a failed seek).
FailedInHeader == pc = "failed" /\ sections = <<>> /\ ret.err # IoError

\* C1 (as amended): past the header only with "GRIB" and version 1 in the 8
\* bytes read; a header whose first four bytes are not "GRIB" fails with
\* WrongHeader; "GRIB" with byte 7 = v # 1 fails with WrongVersion(v), where a
\* byte the file no longer holds reads as 0; magic is checked first and no
\* section is read after either failure.
C1_HeaderGate ==
    /\ pc \in PastHeader =>
         /\ offset + 8 <= Len(file)
         /\ buffer = SubSeq(file, offset + 1, offset + 8)
         /\ MagicInFile
         /\ HeaderByte(8) = 1
    /\ FailedInHeader =>
         /\ ret.err = IF ~MagicInFile THEN WrongHeader ELSE WrongVersion(HeaderByte(8))
         /\ MagicInFile => HeaderByte(8) # 1
         /\ pos <= offset + 8
    /\ (pc = "failed" /\ ret.err[1] \in {"WrongHeader", "WrongVersion"}) => sections = <<>>

\* C1 witness: the second message of a file fails the version check.
C1_Witness ==
    /\ pc = "failed"
    /\ offset > 0
    /\ ret.err = WrongVersion(2)
    /\ MagicInFile

\* C1 as stated: the same, with every header of fewer than 8 remaining
\* bytes failing with WrongHeader.
C1_ShortHeaderIsWrongHeader ==
    /\ pc \in PastHeader => MagicInFile /\ HeaderByte(8) = 1
    /\ FailedInHeader =>
         /\ ~MagicInFile => ret.err = WrongHeader
         /\ Len(file) - offset < 8 => ret.err = WrongHeader
         /\ (MagicInFile /\ Len(file) - offset >= 8) => ret.err = WrongVersion(HeaderByte(8))

\* ---- C2, C3: what the two operations return

\* A search item names a message: parameter and level are the same integers.
ExactMatch(param, level, list) ==
    \E i \in 1..Len(list) : list[i].param = param /\ list[i].level = level

\* Number of samples a laid-out message carries a grid for.
GridPoints(s) == IF s.flag \div 128 = 1 /\ s.rep = 10 THEN s.lat * s.lon ELSE 0

\* The file is as its writer laid it out and every payload holds its samples.
WellFormedFile ==
    /\ damage = NoDamage
    /\ \A i \in 1..Len(shapes) :
         \/ GridPoints(shapes[i]) = 0
         \/ shapes[i].bits <= 32 /\ GridPoints(shapes[i]) * shapes[i].bits <= 8 * shapes[i].nbytes

KeyOf(g) == <<g.pds.indicator_of_parameter_and_units, g.pds.level_or_layer_value,
              g.pds.flag_specifying_the_presence_or_absence_of_a_gds_or_a_bms>>

\* C2: read on a well-formed file returns one entry per message that matches a
\* search item, in file order, whatever the order or number of matching items;
\* the empty sequence, and no error, when none matches.
C2_ReadReturnsMatchesInFileOrder ==
    (mode = "read" /\ WellFormedFile) =>
        /\ pc # "panicked"
        /\ pc = "failed" => ret.err = IoError
        /\ pc = "done" =>
             LET want == SelectSeq(shapes, LAMBDA s : ExactMatch(s.param, s.level, search))
             IN  /\ ret.kind = "Ok"
                 /\ Len(ret.value) = Len(want)
                 /\ \A i \in 1..Len(want) :
                      KeyOf(ret.value[i]) = <<want[i].param, want[i].level, want[i].flag>>

\* The byte ranges [offset, offset + length) of the scanned messages that
\* match a search item, concatenated in scan order.
RECURSIVE MatchingRanges(_)
MatchingRanges(q) ==
    IF q = <<>> THEN <<>>
    ELSE (IF ExactMatch(Head(q).param, Head(q).level, search)
          THEN SubSeq(file, Head(q).offset + 1, Head(q).offset + Head(q).length)
          ELSE <<>>) \o MatchingRanges(Tail(q))

RECURSIVE MatchingLengths(_)
MatchingLengths(q) ==
    IF q = <<>> THEN 0
    ELSE (IF ExactMatch(Head(q).param, Head(q).level, search) THEN Head(q).length ELSE 0)
         + MatchingLengths(Tail(q))

\* C3: read_binary returns the file's bytes [start, start + reported length) of
\* every matching message, concatenated in file order; its length is the sum
\* of their reported lengths.
C3_BinaryReturnsMatchingRanges ==
    (mode = "read_binary" /\ pc = "done") =>
        /\ ret.kind = "Ok"
        /\ ret.value = MatchingRanges(scanned)
        /\ Len(ret.value) = MatchingLengths(scanned)

\* ---- C4, C5: the walker's offset

RECURSIVE SumLengths(_)
SumLengths(q) == IF q = <<>> THEN 0 ELSE Head(q).length + SumLengths(Tail(q))

\* C4: the offset never exceeds the file length, and on a successful return
\* the reported lengths of the scanned messages add up to the file length.
C4_OffsetAccounting ==
    /\ pc # "start" => offset <= length
    /\ pc = "done" => SumLengths(scanned) = Len(file)

\* C5: each scanned message strictly advances the offset, whatever its
\* reported length (so the loop ends).
C5_EachMessageAdvances ==
    [][(pc \in {"found", "skip"} /\ pc' = "while") => offset' > offset]_vars

\* ---- C8: matching is integer equality

\* C8: the scanner treats a message as matching exactly when some search item
\* has its parameter code and its level as the same integers.
C8_MatchIsExactEquality ==
    /\ pc \in {"bds", "found"} =>
         ExactMatch(grib.pds.indicator_of_parameter_and_units,
                    grib.pds.level_or_layer_value, search)
    /\ pc = "skip" =>
         ~ExactMatch(grib.pds.indicator_of_parameter_and_units,
                     grib.pds.level_or_layer_value, search)

\* ---- C6: a failure ends the operation

U24InFile(p) == file[p + 1] * 65536 + file[p + 2] * 256 + file[p + 3]

\* The section that starts at stream position p lies within the file.
SectionFitsAt(p) == p + 3 <= Len(file) /\ p + U24InFile(p) <= Len(file)

\* The message being scanned, read off the file at the walker's offset: its
\* flag byte, and the representation type and point counts of its Grid
\* Description.
OwnFlag == file[offset + 8 + 8]
OwnFlagBit(mask) == (OwnFlag \div mask) % 2 = 1
OwnGdsAt == offset + 8 + U24InFile(offset + 8)
OwnCount ==
    IF OwnFlagBit(128) /\ file[OwnGdsAt + 6] = 10
    THEN (file[OwnGdsAt + 7] * 256 + file[OwnGdsAt + 8])
         * (file[OwnGdsAt + 9] * 256 + file[OwnGdsAt + 10])
    ELSE 0

NoFailure == <<"none">>

\* The failure the step to be taken at pc must end with, read off the file.
ExpectedFailure ==
    CASE pc = "header" ->
           IF ~MagicInFile THEN WrongHeader
           ELSE IF HeaderByte(8) # 1 THEN WrongVersion(HeaderByte(8))
           ELSE NoFailure
      [] pc = "pds" -> IF SectionFitsAt(pos) THEN NoFailure ELSE IoError
      [] pc = "gds" -> IF OwnFlagBit(128) /\ ~SectionFitsAt(pos) THEN IoError ELSE NoFailure
      [] pc = "bmp" -> IF OwnFlagBit(64) /\ ~SectionFitsAt(pos) THEN IoError ELSE NoFailure
      [] pc = "bds" ->
           IF ~SectionFitsAt(pos) THEN IoError
           ELSE IF /\ U24InFile(pos) >= 11
                   /\ OwnCount > 0
                   /\ \/ file[pos + 11] > 32
                      \/ OwnCount * file[pos + 11] > 8 * (U24InFile(pos) - 11)
                THEN DataDecodeFailed
                ELSE NoFailure
      [] pc = "found" /\ mode = "read_binary" ->
           IF offset + grib.length > Len(file) THEN IoError ELSE NoFailure
      [] OTHER -> NoFailure

\* C6: a failure while scanning a message ends read / read_binary with that
\* error and nothing else: no step follows it (no later message, no retry) and
\* the messages assembled before it are not part of what is returned.
C6_FailureAborts ==
    /\ [](pc = "failed" => ret.kind = "Err" /\ DOMAIN ret = {"kind", "err"})
    /\ [](ret.kind = "Ok" => pc = "done" /\ ~(offset < length))
    /\ [][ /\ pc \notin {"failed", "panicked", "done"}
           /\ ExpectedFailure # NoFailure =>
                pc' = "failed" /\ ret' = Err(ExpectedFailure) ]_vars

\* C6 witness: read fails on a later message after one was assembled.
C6_Witness ==
    /\ pc = "failed"
    /\ mode = "read"
    /\ ret.err = DataDecodeFailed
    /\ Len(result) >= 1

\* ---- C7: conditional sections

IsPrefix(a, b) == Len(a) <= Len(b) /\ a = SubSeq(b, 1, Len(a))

WithoutBds(q) == SelectSeq(q, LAMBDA x : x # "BDS")

FlagBit(g, mask) ==
    (g.pds.flag_specifying_the_presence_or_absence_of_a_gds_or_a_bms \div mask) % 2 = 1

SectionsFor(g) ==
    <<"PDS">> \o (IF FlagBit(g, 128) THEN <<"GDS">> ELSE <<>>)
              \o (IF FlagBit(g, 64) THEN <<"BMP">> ELSE <<>>)

\* C7: the Grid Description is read exactly when flag bit 0x80 is set, the
\* Bitmap exactly when 0x40 is set, in the order PDS, GDS, Bitmap; gds is
\* present in the message exactly when 0x80 is set; with neither bit set the
\* stream stands right behind the Product Definition when matching starts.
C7_SectionPresence ==
    /\ pc = "gds" => sections = <<"PDS">>
    /\ pc = "bmp" =>
         /\ sections = <<"PDS">> \o (IF FlagBit(grib, 128) THEN <<"GDS">> ELSE <<>>)
         /\ grib.gds.some <=> FlagBit(grib, 128)
    /\ pc \in {"match", "bds", "found", "skip"} =>
         /\ WithoutBds(sections) = SectionsFor(grib)
         /\ grib.gds.some <=> FlagBit(grib, 128)
    /\ (pc = "match" /\ ~FlagBit(grib, 128) /\ ~FlagBit(grib, 64)) =>
         pos = offset + 8 + U24InFile(offset + 8)
    /\ (pc \in {"failed", "panicked"} /\ Len(sections) >= 2) =>
         IsPrefix(WithoutBds(sections), SectionsFor(grib))
    /\ mode = "read" =>
         \A i \in 1..Len(result) : result[i].gds.some <=> FlagBit(result[i], 128)

\* C7 witness: read returned a message with neither bit and no gds, and one
\* with both bits and its gds.
C7_Witness ==
    /\ pc = "done"
    /\ mode = "read"
    /\ \E i, j \in 1..Len(ret.value) :
         /\ ~FlagBit(ret.value[i], 128) /\ ~FlagBit(ret.value[i], 64)
         /\ ~ret.value[i].gds.some
         /\ FlagBit(ret.value[j], 128) /\ FlagBit(ret.value[j], 64)
         /\ ret.value[j].gds.some

\* ---- C9: filtering precedes payload decoding

\* Some search item names the message g.
MessageMatches(g) ==
    ExactMatch(g.pds.indicator_of_parameter_and_units, g.pds.level_or_layer_value, search)

HasBds(q) == \E i \in 1..Len(q) : q[i] = "BDS"

\* C9: the Binary Data section is read only after a search item matched the
\* message, and only by read; for a message no item matches the scanner
\* returns only the length and never reads it, so its payload cannot fail the
\* scan; read_binary never decodes it and never fails with DataDecodeFailed;
\* every message read returns has its bds.
C9_FilterBeforeDecode ==
    /\ pc = "bds" => mode = "read" /\ MessageMatches(grib) /\ ~HasBds(sections)
    /\ HasBds(sections) =>
         /\ mode = "read"
         /\ MessageMatches(grib)
         /\ Last(sections) = "BDS"
    /\ (pc \in {"bds", "found", "skip"} /\ ~MessageMatches(grib)) => pc = "skip"
    /\ pc = "skip" => ~HasBds(sections)
    /\ (pc = "found" /\ mode = "read_binary") => ~grib.bds.some
    /\ (pc = "failed" /\ ret.err = DataDecodeFailed) => mode = "read" /\ MessageMatches(grib)
    /\ mode = "read" => \A i \in 1..Len(result) : result[i].bds.some

\* ---- C10: the Binary Data decode

\* Field k (from 0) of width w of a byte string read as one big-endian bit
\* string: cut out of the three bytes that hold it (w <= 16).
ByteOrZero(bytes, i) == IF i <= Len(bytes) THEN bytes[i] ELSE 0
Field(bytes, k, w) ==
    LET q == (k * w) \div 8
        r == (k * w) % 8
        window == ByteOrZero(bytes, q + 1) * 65536 + ByteOrZero(bytes, q + 2) * 256
                  + ByteOrZero(bytes, q + 3)
    IN  (window \div Pow2(24 - r - w)) % Pow2(w)

BdsWidth == secbuf[11]
BdsPayload == SubSeq(secbuf, 12, Len(secbuf))
BdsWasRead == sections # <<>> /\ Last(sections) = "BDS"

DecodedAsFields ==
    LET d == grib.bds.val.data
    IN  /\ Len(d) = OwnCount
        /\ \A k \in 1..Len(d) : d[k] = Field(BdsPayload, k - 1, BdsWidth)
        /\ BdsWidth = 8 => d = SubSeq(BdsPayload, 1, Len(d))
        /\ grib.bds.val.bits_per_value = BdsWidth

====
